---- MODULE Spec2Model ----
(***************************************************************************)
(* Model of src/static/js/regional_report.js: the regional disease report  *)
(* page.  The page is single-threaded and event-driven: every action below *)
(* is one event handler, or the part of an async function that runs when   *)
(* the promise or callback it waits for settles.                           *)
(*                                                                         *)
(* Text is modelled as a sequence of one-character strings wherever the    *)
(* code builds, splits or tests it (the coordinate fields and the option   *)
(* values); a message is the sequence of its parts.  A JavaScript object    *)
(* with optional properties is a record whose DOMAIN holds the properties  *)
(* that are present; an object used as an ordered mapping (regional_data)  *)
(* is a sequence of <<key, value>> pairs with distinct keys.               *)
(***************************************************************************)
EXTENDS Integers, Sequences, FiniteSets, TLC

VARIABLES
    savedFarms,             \* let savedFarms
    farmsPending,           \* UserAPI.getFarms() has not settled yet
    farms,                  \* what UserAPI.getFarms() resolved to (<<>> before)
    farmOptions,            \* values of the options loadFarmLocations appended
    farmSelectIndex,        \* 0 = the placeholder option (value ''), i = farmOptions[i]
    farmSelectDisabled,     \* farmSelect.disabled
    farmChangeListener,     \* the 'change' listener has been added
    latInput,               \* reportLatitude.value
    lonInput,               \* reportLongitude.value
    detectDisabled,         \* autoDetectLocation.disabled
    detectLabel,            \* autoDetectLocation.textContent
    geoPending,             \* getCurrentPosition calls whose callback has not run
    message,                \* last displayMessage(text, isError)
    guidePending,           \* apiCall('/api/user/diseases') has not settled yet
    guide,                  \* allDiseasesTreatment.innerHTML
    generateDisabled,       \* generateReport.disabled
    generateLabel,          \* generateReport.textContent
    statsInFlight,          \* regional-stats requests that have not settled
    generations,            \* regional-stats requests issued so far
    regionalData,           \* const regionalData of the last call: <<d>> once assigned
    chartMessage,           \* chartMessage.textContent
    summary,                \* regionalDataSummary.innerHTML
    treatment,              \* treatmentSummary.innerHTML
    regionalChartInstance,  \* let regionalChartInstance: 0 = null, i = charts[i]
    charts,                 \* charts[i] = destroy() calls made on the i-th Chart
    canvasSlices,           \* labels of the slices drawn on the canvas
    canvasPresent           \* the page holds regionalDiseaseChartCanvas

locationVars == <<savedFarms, farmsPending, farms, farmOptions, farmSelectIndex,
                  farmSelectDisabled, farmChangeListener, detectDisabled,
                  detectLabel, geoPending>>
fieldVars == <<latInput, lonInput>>
guideVars == <<guidePending, guide>>
buttonVars == <<generateDisabled, generateLabel>>
chartVars == <<regionalChartInstance, charts, canvasSlices>>
reportVars == <<statsInFlight, generations, regionalData, chartMessage, summary,
                treatment, canvasPresent>>
vars == <<locationVars, fieldVars, guideVars, buttonVars, chartVars, reportVars,
          message>>

-----------------------------------------------------------------------------
(* Bounds of the model *)

MaxFarms == 2          \* entries in one getFarms() answer
MaxEntries == 2        \* diseases in one regional_data mapping
MaxGenerations == 3    \* regional-stats requests issued in one behaviour
MaxGeoPending == 2     \* position requests outstanding at once
MaxCatalog == 2        \* entries in one disease catalog

-----------------------------------------------------------------------------
(* Text *)

Digits == <<"0", "1", "2", "3", "4", "5", "6", "7", "8", "9">>

RECURSIVE NatToString(_)
NatToString(n) ==
    IF n < 10 THEN <<Digits[n + 1]>>
    ELSE NatToString(n \div 10) \o <<Digits[(n % 10) + 1]>>

\* `${n}` for an integer-valued number
NumberToString(n) == IF n < 0 THEN <<"-">> \o NatToString(0 - n) ELSE NatToString(n)

RECURSIVE Zeros(_)
Zeros(k) == IF k = 0 THEN <<>> ELSE <<"0">> \o Zeros(k - 1)

GeoDecimals == 8

\* n.toFixed(8) for an integer-valued number
ToFixed(n) == NumberToString(n) \o <<".">> \o Zeros(GeoDecimals)

\* s.split(','): the pieces of s between commas
RECURSIVE Split(_)
Split(s) ==
    IF \A i \in 1..Len(s) : s[i] # ","
    THEN <<s>>
    ELSE LET k == CHOOSE i \in 1..Len(s) :
                      s[i] = "," /\ \A j \in 1..(i - 1) : s[j] # ","
         IN  <<SubSeq(s, 1, k - 1)>> \o Split(SubSeq(s, k + 1, Len(s)))

\* JavaScript truthiness of a string: '' is falsy
TruthyString(s) == s # <<>>

\* JavaScript truthiness of an optional numeric property: undefined and 0 are falsy
TruthyNumber(obj, key) == key \in DOMAIN obj /\ obj[key] # 0

SeqsUpTo(S, n) == UNION { [1..k -> S] : k \in 0..n }

NoMessage == [text |-> <<>>, isError |-> FALSE]

-----------------------------------------------------------------------------
(* What the collaborators may answer *)

LatValues == {0, 12}
LonValues == {0, 56}

\* a farm record of UserAPI.getFarms(): each coordinate present or absent
FarmEntries ==
    [farm_name : {"Farm"}]
    \cup [farm_name : {"Farm"}, latitude : LatValues]
    \cup [farm_name : {"Farm"}, longitude : LonValues]
    \cup [farm_name : {"Farm"}, latitude : LatValues, longitude : LonValues]

FarmLists == SeqsUpTo(FarmEntries, MaxFarms)

\* position.coords of a geolocation fix
Positions == { [latitude |-> 9, longitude |-> 77], [latitude |-> -3, longitude |-> 0] }

GeoErrors == {"User denied Geolocation", "Timeout expired"}

-----------------------------------------------------------------------------
(* Location Selector *)

\* f => f.latitude && f.longitude
HasCoordinates(f) == TruthyNumber(f, "latitude") /\ TruthyNumber(f, "longitude")

\* option.value = `${farm.latitude},${farm.longitude}`
OptionValue(farm) ==
    NumberToString(farm.latitude) \o <<",">> \o NumberToString(farm.longitude)

\* the value of option i of farmSelect
SelectValue(i) == IF i = 0 THEN <<>> ELSE farmOptions[i]

\* farmSelect.value
FarmSelectValue == SelectValue(farmSelectIndex)

\* loadFarmLocations, from the answer of UserAPI.getFarms() on
FarmsFetched(fs) ==
    /\ farmsPending
    /\ farmsPending' = FALSE
    /\ farms' = fs
    /\ savedFarms' = SelectSeq(fs, HasCoordinates)
    /\ IF Len(savedFarms') = 0
       THEN /\ farmOptions' = <<>>
            /\ farmSelectIndex' = 0
            /\ farmSelectDisabled' = TRUE
            /\ UNCHANGED farmChangeListener
       ELSE /\ farmOptions' =
                   farmOptions \o [i \in 1..Len(savedFarms') |-> OptionValue(savedFarms'[i])]
            /\ farmChangeListener' = TRUE
            /\ UNCHANGED <<farmSelectIndex, farmSelectDisabled>>
    /\ UNCHANGED <<detectDisabled, detectLabel, geoPending,
                   fieldVars, guideVars, buttonVars, chartVars, reportVars, message>>

\* loadFarmLocations, catch branch
FarmsFetchFailed ==
    /\ farmsPending
    /\ farmsPending' = FALSE
    /\ farmOptions' = <<>>
    /\ farmSelectIndex' = 0
    /\ farmSelectDisabled' = TRUE
    /\ UNCHANGED <<savedFarms, farms, farmChangeListener, detectDisabled, detectLabel,
                   geoPending,
                   fieldVars, guideVars, buttonVars, chartVars, reportVars, message>>

UndefinedText == <<"u", "n", "d", "e", "f", "i", "n", "e", "d">>

\* handleFarmSelection: the values the two fields hold after it
HandleFarmSelection(value) ==
    IF TruthyString(value)
    THEN LET parts == Split(value)
         IN  <<parts[1], IF Len(parts) >= 2 THEN parts[2] ELSE UndefinedText>>
    ELSE <<<<>>, <<>>>>

\* the user picks option i of farmSelect; the browser fires 'change' only when
\* the selection changes and the control is enabled
FarmSelected(i) ==
    /\ farmChangeListener
    /\ ~farmSelectDisabled
    /\ i \in 0..Len(farmOptions)
    /\ i # farmSelectIndex
    /\ farmSelectIndex' = i
    /\ latInput' = HandleFarmSelection(SelectValue(i))[1]
    /\ lonInput' = HandleFarmSelection(SelectValue(i))[2]
    /\ UNCHANGED <<savedFarms, farmsPending, farms, farmOptions, farmSelectDisabled,
                   farmChangeListener, detectDisabled, detectLabel, geoPending,
                   guideVars, buttonVars, chartVars, reportVars, message>>

\* detectButton click handler, in a browser with or without navigator.geolocation;
\* a disabled button receives no click
DetectClick(geolocationSupported) ==
    /\ ~detectDisabled
    /\ IF ~geolocationSupported
       THEN /\ message' = [text |-> (<<"Geolocation is not supported by your browser.">>),
                           isError |-> TRUE]
            /\ UNCHANGED <<detectDisabled, detectLabel, farmSelectIndex, geoPending>>
       ELSE /\ geoPending < MaxGeoPending
            /\ detectDisabled' = TRUE
            /\ detectLabel' = "Detecting..."
            /\ message' = [text |-> (<<"Please allow browser location access.">>),
                           isError |-> FALSE]
            /\ farmSelectIndex' = 0
            /\ geoPending' = geoPending + 1
    /\ UNCHANGED <<savedFarms, farmsPending, farms, farmOptions, farmSelectDisabled,
                   farmChangeListener,
                   fieldVars, guideVars, buttonVars, chartVars, reportVars>>

\* getCurrentPosition success callback
GeoSuccess(position) ==
    /\ geoPending > 0
    /\ geoPending' = geoPending - 1
    /\ latInput' = ToFixed(position.latitude)
    /\ lonInput' = ToFixed(position.longitude)
    /\ message' = [text |-> (<<"Location detected successfully!">>), isError |-> FALSE]
    /\ UNCHANGED <<savedFarms, farmsPending, farms, farmOptions, farmSelectIndex,
                   farmSelectDisabled, farmChangeListener, detectDisabled, detectLabel,
                   guideVars, buttonVars, chartVars, reportVars>>

\* getCurrentPosition error callback
GeoError(error) ==
    /\ geoPending > 0
    /\ geoPending' = geoPending - 1
    /\ message' = [text |-> (<<"Error detecting location: ", error, ". Enter manually.">>),
                   isError |-> TRUE]
    /\ UNCHANGED <<savedFarms, farmsPending, farms, farmOptions, farmSelectIndex,
                   farmSelectDisabled, farmChangeListener, detectDisabled, detectLabel,
                   fieldVars, guideVars, buttonVars, chartVars, reportVars>>

\* the setTimeout callback of the detect handler
DetectTimer ==
    /\ detectDisabled
    /\ detectDisabled' = FALSE
    /\ detectLabel' = "Detect Current GPS"
    /\ UNCHANGED <<savedFarms, farmsPending, farms, farmOptions, farmSelectIndex,
                   farmSelectDisabled, farmChangeListener, geoPending,
                   fieldVars, guideVars, buttonVars, chartVars, reportVars, message>>

-----------------------------------------------------------------------------
(* Reference Data Store *)

DISEASE_SEVERITY_INDEX ==
    [d \in {"Healthy", "Sooty Mould", "Powdery Mildew", "Gall Midge", "Anthracnose",
            "Bacterial Canker", "Cutting Weevil", "die back"} |->
        CASE d = "Healthy" -> 0
          [] d = "Sooty Mould" -> 1
          [] d \in {"Powdery Mildew", "Gall Midge"} -> 2
          [] OTHER -> 3]

DISEASE_COLOR_MAP ==
    [d \in {"Anthracnose", "Bacterial Canker", "Cutting Weevil", "die back",
            "Gall Midge", "Powdery Mildew", "Sooty Mould"} |->
        CASE d = "Anthracnose" -> "#f0ad4e"
          [] d = "Bacterial Canker" -> "#337ab7"
          [] d = "Cutting Weevil" -> "#9966FF"
          [] d = "die back" -> "#dc3545"
          [] d = "Gall Midge" -> "#ffc107"
          [] d = "Powdery Mildew" -> "#20c997"
          [] OTHER -> "#6c757d"]

-----------------------------------------------------------------------------
(* What the statistics API may answer *)

\* one disease of each severity rank, and one the index does not know
DiseaseNames == {"Healthy", "Sooty Mould", "Powdery Mildew", "Anthracnose", "Leaf Spot"}

\* affected-tree counts: none, one, several
Counts == {0, 1, 3}

\* regional_data: an ordered mapping, i.e. pairs <<name, count>> with distinct names
Distributions ==
    { d \in SeqsUpTo(DiseaseNames \X Counts, MaxEntries) :
        \A i, j \in 1..Len(d) : i # j => d[i][1] # d[j][1] }

TopTreatmentLists ==
    { <<>>,
      << [name |-> "Anthracnose", count |-> 1, organic |-> "Neem oil"],
         [name |-> "Leaf Spot", count |-> 2] >> }

ServerMessages == {"Nothing reported near this location."}

\* the answer of the regional-stats endpoint: every property is optional
Responses ==
    LET Data == [regional_data : Distributions]
        Top == [top_treatments : TopTreatmentLists]
        Msg == [message : ServerMessages]
        Merge(a, b) == [k \in DOMAIN a \cup DOMAIN b |->
                            IF k \in DOMAIN a THEN a[k] ELSE b[k]]
        None == { [k \in {} |-> 0] }
        Two == { Merge(a, b) : a \in Data \cup None, b \in Top \cup None }
    IN  { Merge(a, b) : a \in Two, b \in Msg \cup None }

\* answers of each kind: nothing at all, an empty mapping with a message, a
\* mapping whose counts are all 0, and mappings with affected trees
SampleResponses ==
    { [k \in {} |-> 0],
      [regional_data |-> <<>>, message |-> "Nothing reported near this location."],
      [regional_data |-> << <<"Leaf Spot", 0>> >>],
      [regional_data |-> << <<"Anthracnose", 3>> >>],
      [regional_data |-> << <<"Healthy", 1>>, <<"Powdery Mildew", 3>> >>,
       top_treatments |-> << [name |-> "Anthracnose", count |-> 1, organic |-> "Neem oil"],
                             [name |-> "Leaf Spot", count |-> 2] >>] }

\* a record of the disease catalog: each treatment present or absent
CatalogEntries ==
    { [name |-> "Healthy", organic_treatment |-> "None needed",
       chemical_treatment |-> "None needed"],
      [name |-> "Anthracnose"],
      [name |-> "Anthracnose", organic_treatment |-> "Neem oil"],
      [name |-> "Leaf Spot", organic_treatment |-> "", chemical_treatment |-> "Copper spray"] }

Catalogs == SeqsUpTo(CatalogEntries, MaxCatalog)

\* error.message of a rejected apiCall
ErrorMessages == {"", "Network error"}

\* what the user may type into a coordinate field
ManualValues == { <<>>, <<"7">> }

-----------------------------------------------------------------------------
(* Report Renderer *)

Keys(d) == [i \in 1..Len(d) |-> d[i][1]]
Values(d) == [i \in 1..Len(d) |-> d[i][2]]

RECURSIVE Sum(_)
Sum(s) == IF s = <<>> THEN 0 ELSE Head(s) + Sum(Tail(s))

\* DISEASE_COLOR_MAP[label] || fallback
ColorOr(label, fallback) ==
    IF label \in DOMAIN DISEASE_COLOR_MAP THEN DISEASE_COLOR_MAP[label] ELSE fallback

\* field || 'No specific ... treatment recorded.'
TreatmentOr(obj, key, placeholder) ==
    IF key \in DOMAIN obj /\ obj[key] # "" THEN obj[key] ELSE placeholder

\* the Chart instances cs after destroy() on the i-th
Destroy(cs, i) == [cs EXCEPT ![i] = @ + 1]

\* the same statement with the destroy() call left out
KeepHeld(cs, i) == cs

\* if (regionalChartInstance) regionalChartInstance.destroy();
DestroyIfHeld(cs, i) == IF i # 0 THEN Destroy(cs, i) ELSE cs

\* what the canvas shows after that statement: destroy() clears it
ClearedIfHeld(slices, i) == IF i # 0 THEN <<>> ELSE slices

\* renderRegionalChart
renderRegionalChart(distributionData) ==
    IF ~canvasPresent
    THEN UNCHANGED chartVars
    ELSE /\ charts' = Append(DestroyIfHeld(charts, regionalChartInstance), 0)
         /\ regionalChartInstance' = Len(charts')
         /\ canvasSlices' =
                [i \in 1..Len(distributionData) |->
                    [label |-> Keys(distributionData)[i],
                     color |-> ColorOr(Keys(distributionData)[i], "#cccccc")]]

\* ((count / total) * 100).toFixed(1) + '%', or '0%' when the total is 0
Percentage(count, total) ==
    IF total > 0
    THEN LET tenths == (count * 2000 + total) \div (2 * total)
         IN  NatToString(tenths \div 10) \o <<".", Digits[(tenths % 10) + 1], "%">>
    ELSE <<"0", "%">>

\* the sort of renderSummaryTable: by count, descending, stable
RECURSIVE SortByCountDesc(_)
SortByCountDesc(d) ==
    IF d = <<>> THEN <<>>
    ELSE LET m == CHOOSE i \in 1..Len(d) :
                      /\ \A j \in 1..Len(d) : d[j][2] <= d[i][2]
                      /\ \A j \in 1..(i - 1) : d[j][2] < d[i][2]
         IN  <<d[m]>> \o SortByCountDesc(SubSeq(d, 1, m - 1) \o SubSeq(d, m + 1, Len(d)))

\* the text 'N/A'
NA == <<"N", "/", "A">>

\* DISEASE_SEVERITY_INDEX[disease] || 'N/A': <<rank>> for a number, NA otherwise
Severity(disease) ==
    IF disease \in DOMAIN DISEASE_SEVERITY_INDEX /\ DISEASE_SEVERITY_INDEX[disease] # 0
    THEN <<DISEASE_SEVERITY_INDEX[disease]>>
    ELSE NA

\* severity >= k: false for 'N/A', which compares as NaN
AtLeast(severity, k) == severity # NA /\ severity[1] >= k

SeverityColor(severity) ==
    IF AtLeast(severity, 3) THEN "red"
    ELSE IF AtLeast(severity, 2) THEN "orange" ELSE "green"

\* `${severity}`
SeverityText(severity) == IF severity = NA THEN NA ELSE NumberToString(severity[1])

\* summaryContainer.innerHTML = ''
NoSummary == [shown |-> FALSE, rows |-> <<>>, total |-> 0]

\* one body row of the summary table
SummaryRow(entry, totalTrees) ==
    [disease |-> entry[1],
     count |-> entry[2],
     percentage |-> Percentage(entry[2], totalTrees),
     severity |-> SeverityText(Severity(entry[1])),
     color |-> SeverityColor(Severity(entry[1]))]

\* renderSummaryTable: the body rows, then the TOTAL row
renderSummaryTable(distributionData) ==
    LET totalTrees == Sum(Values(distributionData))
        sortedEntries == SortByCountDesc(distributionData)
    IN  [shown |-> TRUE,
         rows |-> [i \in 1..Len(sortedEntries) |-> SummaryRow(sortedEntries[i], totalTrees)],
         total |-> totalTrees]

\* renderTopTreatments: one card per entry, in the given order
renderTopTreatments(topTreatments) ==
    [i \in 1..Len(topTreatments) |->
        [rank |-> i,
         name |-> topTreatments[i].name,
         count |-> topTreatments[i].count,
         noun |-> IF topTreatments[i].count # 1 THEN "affected trees" ELSE "affected tree",
         organic |-> TreatmentOr(topTreatments[i], "organic",
                                 "No specific organic treatment recorded."),
         chemical |-> TreatmentOr(topTreatments[i], "chemical",
                                  "No specific chemical treatment recorded."),
         border |-> ColorOr(topTreatments[i].name, "#333")]]

-----------------------------------------------------------------------------
(* Static Guide Renderer *)

\* one row of the guide table
GuideRow(disease) ==
    [name |-> disease.name,
     organic |-> TreatmentOr(disease, "organic_treatment",
                             "No specific organic treatment recorded."),
     chemical |-> TreatmentOr(disease, "chemical_treatment",
                              "No specific chemical treatment recorded.")]

\* if (disease.name === 'Healthy') return;
InGuide(disease) == disease.name # "Healthy"

\* loadAllTreatments, from the answer of apiCall on
GuideFetched(diseases) ==
    /\ guidePending
    /\ guidePending' = FALSE
    /\ guide' = LET shown == SelectSeq(diseases, InGuide)
                IN  [status |-> "table",
                     rows |-> [i \in 1..Len(shown) |-> GuideRow(shown[i])]]
    /\ UNCHANGED <<locationVars, fieldVars, buttonVars, chartVars, reportVars, message>>

\* loadAllTreatments, catch branch
GuideFetchFailed ==
    /\ guidePending
    /\ guidePending' = FALSE
    /\ guide' = [status |-> "Failed to load static treatment guide.", rows |-> <<>>]
    /\ UNCHANGED <<locationVars, fieldVars, buttonVars, chartVars, reportVars, message>>

-----------------------------------------------------------------------------
(* Page Controller and Regional Report Fetcher *)

\* the user edits one coordinate field
ManualEntry(field, value) ==
    /\ IF field = "reportLatitude"
       THEN latInput' = value /\ latInput # value /\ UNCHANGED lonInput
       ELSE lonInput' = value /\ lonInput # value /\ UNCHANGED latInput
    /\ UNCHANGED <<locationVars, guideVars, buttonVars, chartVars, reportVars, message>>

\* a validation that tests the latitude alone
LatitudeOnly(latitude, longitude) == TruthyString(latitude)

\* !latitude || !longitude is false
ValidCoordinates(latitude, longitude) == TruthyString(latitude) /\ TruthyString(longitude)

\* the same two statements without the first
RelabelGenerateButton ==
    /\ UNCHANGED generateDisabled
    /\ generateLabel' = "Analyzing..."

\* generateButton.disabled = true; generateButton.textContent = 'Analyzing...';
DisableGenerateButton ==
    /\ generateDisabled' = TRUE
    /\ generateLabel' = "Analyzing..."

\* generateButton.disabled = false; generateButton.textContent = 'Generate Report';
RestoreGenerateButton ==
    /\ generateDisabled' = FALSE
    /\ generateLabel' = "Generate Report"

\* generateButton click handler, up to the await inside loadRegionalStatistics;
\* a disabled button receives no click; at most limit requests are modelled
GenerateClick(limit) ==
    /\ ~generateDisabled
    /\ IF ~ValidCoordinates(latInput, lonInput)
       THEN /\ message' = [text |-> (<<"Please enter or detect both Latitude and Longitude.">>),
                           isError |-> TRUE]
            /\ UNCHANGED <<buttonVars, chartVars, reportVars>>
       ELSE /\ generations < limit
            /\ DisableGenerateButton
            /\ chartMessage' = (<<"Fetching data from surrounding 5km...">>)
            /\ summary' = NoSummary
            /\ treatment' = <<>>
            /\ statsInFlight' = Append(statsInFlight,
                                       [latitude |-> latInput, longitude |-> lonInput])
            /\ generations' = generations + 1
            /\ regionalData' = <<>>
            /\ UNCHANGED <<chartVars, canvasPresent, message>>
    /\ UNCHANGED <<locationVars, fieldVars, guideVars>>

\* a test for a missing mapping, which regionalData never is
IsFalsyResult(data) == FALSE

\* Object.keys(regionalData).length === 0
IsEmptyResult(data) == Len(data) = 0

\* response.message || 'No active diseased trees found within 5km.'
EmptyResultText(resp) ==
    IF "message" \in DOMAIN resp /\ resp.message # ""
    THEN (<<resp.message>>)
    ELSE (<<"No active diseased trees found within 5km.">>)

\* loadRegionalStatistics from the answer of apiCall on, then the rest of the
\* click handler, which runs as soon as loadRegionalStatistics has returned
StatsAnswered(resp) ==
    /\ statsInFlight # <<>>
    /\ statsInFlight' = Tail(statsInFlight)
    /\ LET data == IF "regional_data" \in DOMAIN resp THEN resp.regional_data ELSE <<>>
           topTreatments == IF "top_treatments" \in DOMAIN resp
                            THEN resp.top_treatments ELSE <<>>
       IN  /\ regionalData' = <<data>>
           /\ IF IsEmptyResult(data)
              THEN /\ chartMessage' = EmptyResultText(resp)
                   /\ charts' = DestroyIfHeld(charts, regionalChartInstance)
                   /\ canvasSlices' = ClearedIfHeld(canvasSlices, regionalChartInstance)
                   /\ UNCHANGED <<regionalChartInstance, summary, treatment, message>>
              ELSE /\ renderRegionalChart(data)
                   /\ summary' = renderSummaryTable(data)
                   /\ treatment' = renderTopTreatments(topTreatments)
                   /\ message' = [text |-> (<<"Regional disease risk assessment loaded successfully.">>),
                                  isError |-> FALSE]
                   /\ UNCHANGED chartMessage
    /\ RestoreGenerateButton
    /\ UNCHANGED <<locationVars, fieldVars, guideVars, generations, canvasPresent>>

\* a rejection that nothing catches: the click handler never resumes
StatsFailedUncaught(error) ==
    /\ statsInFlight # <<>>
    /\ statsInFlight' = Tail(statsInFlight)
    /\ UNCHANGED <<locationVars, fieldVars, guideVars, buttonVars, chartVars, message,
                   generations, regionalData, chartMessage, summary, treatment,
                   canvasPresent>>

\* loadRegionalStatistics when apiCall rejects (catch branch), then the rest of
\* the click handler
StatsFailed(error) ==
    /\ statsInFlight # <<>>
    /\ statsInFlight' = Tail(statsInFlight)
    /\ chartMessage' = (<<"Failed to load regional data: ", error>>)
    /\ message' = [text |-> (<<IF error # "" THEN error
                                   ELSE "Failed to load regional data.">>),
                   isError |-> TRUE]
    /\ charts' = DestroyIfHeld(charts, regionalChartInstance)
    /\ canvasSlices' = ClearedIfHeld(canvasSlices, regionalChartInstance)
    /\ RestoreGenerateButton
    /\ UNCHANGED <<locationVars, fieldVars, guideVars, generations, canvasPresent,
                   regionalData, regionalChartInstance, summary, treatment>>

-----------------------------------------------------------------------------

\* the page after DOMContentLoaded: both loads started, nothing answered yet
Init ==
    /\ savedFarms = <<>>
    /\ farmsPending = TRUE
    /\ farms = <<>>
    /\ farmOptions = <<>>
    /\ farmSelectIndex = 0
    /\ farmSelectDisabled = FALSE
    /\ farmChangeListener = FALSE
    /\ latInput = <<>>
    /\ lonInput = <<>>
    /\ detectDisabled = FALSE
    /\ detectLabel = "Detect Current GPS"
    /\ geoPending = 0
    /\ message = NoMessage
    /\ guidePending = TRUE
    /\ guide = [status |-> "Loading static disease guide...", rows |-> <<>>]
    /\ generateDisabled = FALSE
    /\ generateLabel = "Generate Report"
    /\ statsInFlight = <<>>
    /\ generations = 0
    /\ regionalData = <<>>
    /\ chartMessage = <<>>
    /\ summary = NoSummary
    /\ treatment = <<>>
    /\ regionalChartInstance = 0
    /\ charts = <<>>
    /\ canvasSlices = <<>>
    /\ canvasPresent \in BOOLEAN

NextLocation ==
    \/ \E fs \in FarmLists : FarmsFetched(fs)
    \/ FarmsFetchFailed
    \/ \E i \in 0..MaxFarms : FarmSelected(i)
    \/ \E geolocationSupported \in BOOLEAN : DetectClick(geolocationSupported)
    \/ \E position \in Positions : GeoSuccess(position)
    \/ \E error \in GeoErrors : GeoError(error)
    \/ DetectTimer

SpecLocation == Init /\ [][NextLocation]_vars

NextGuide ==
    \/ \E diseases \in Catalogs : GuideFetched(diseases)
    \/ GuideFetchFailed

\* the user edits a coordinate field
NextManualEntry ==
    \E field \in {"reportLatitude", "reportLongitude"}, value \in ManualValues :
        ManualEntry(field, value)

\* the whole page
Next ==
    \/ NextLocation
    \/ NextGuide
    \/ NextManualEntry
    \/ GenerateClick(MaxGenerations)
    \/ \E resp \in Responses : StatsAnswered(resp)
    \/ \E error \in ErrorMessages : StatsFailed(error)

Spec == Init /\ [][Next]_vars

\* The report handlers read nothing of the Location Selector but the two
\* coordinate fields, which NextManualEntry sets to any value; the specifications
\* below explore the report without the location and guide actions.

\* sequences of report generations, each answered by a sample of each kind
NextReport ==
    \/ NextManualEntry
    \/ GenerateClick(MaxGenerations)
    \/ \E resp \in SampleResponses : StatsAnswered(resp)
    \/ \E error \in ErrorMessages : StatsFailed(error)

SpecReport == Init /\ [][NextReport]_vars

\* every request that was issued settles
SpecReportLive ==
    /\ SpecReport
    /\ WF_vars((\E resp \in SampleResponses : StatsAnswered(resp))
                  \/ (\E error \in ErrorMessages : StatsFailed(error)))

\* the first report generation of a page, answered in every way
NextRender ==
    \/ NextManualEntry
    \/ GenerateClick(1)
    \/ \E resp \in Responses : StatsAnswered(resp)
    \/ \E error \in ErrorMessages : StatsFailed(error)

SpecRender == Init /\ [][NextRender]_vars

\* the first report generation and the static guide
NextDisplays ==
    \/ NextGuide
    \/ NextRender

SpecDisplays == Init /\ [][NextDisplays]_vars

-----------------------------------------------------------------------------
(* Properties *)

LiveCharts == { i \in 1..Len(charts) : charts[i] = 0 }

\* C1: after any sequence of report generations at most one Chart is live
\* (constructed and not destroyed).
C1_AtMostOneLiveChart == Cardinality(LiveCharts) <= 1

\* a re-render: an earlier chart was destroyed and its successor is live
C1_Rerendered == Len(charts) >= 2 /\ LiveCharts = {regionalChartInstance}

\* C2: while a regional-stats request is in flight the generate button is
\* disabled, so at most one request is in flight; the button is disabled by the
\* step that issues the request and re-enabled only by the step that settles it.
C2_ButtonGuardsRequest ==
    /\ [](Len(statsInFlight) <= 1 /\ (statsInFlight # <<>> => generateDisabled))
    /\ [][/\ Len(statsInFlight') > Len(statsInFlight) => generateDisabled'
          /\ generateDisabled /\ ~generateDisabled' =>
                 statsInFlight # <<>> /\ statsInFlight' = <<>>]_vars

\* a second request is in flight, behind the disabled button
C2_SecondRequestInFlight == statsInFlight # <<>> /\ generateDisabled /\ generations >= 2

ValidationMessage ==
    [text |-> (<<"Please enter or detect both Latitude and Longitude.">>), isError |-> TRUE]

\* C3: a click on the generate button while either coordinate field is empty
\* shows the validation message, issues no request and leaves the button, the
\* chart, the summary and the treatment region as they were.
C3_EmptyFieldRejected ==
    [][GenerateClick(MaxGenerations) /\ (latInput = <<>> \/ lonInput = <<>>) =>
          /\ message' = ValidationMessage
          /\ UNCHANGED <<statsInFlight, generations, buttonVars, chartVars, chartMessage,
                         summary, treatment>>]_vars

\* the validation message over a rendered report, one field empty
C3_RejectedOverReport ==
    /\ message = ValidationMessage
    /\ (latInput = <<>>) # (lonInput = <<>>)
    /\ summary.shown
    /\ LiveCharts # {}
    /\ ~generateDisabled

\* the step that ends loadRegionalStatistics after regionalData was assigned
Answered == Len(statsInFlight') < Len(statsInFlight) /\ regionalData' # <<>>

EmptyResultTexts == { EmptyResultText(resp) : resp \in Responses }

\* the empty-result outcome: the message, no new Chart, nothing rendered
ShortCircuited ==
    /\ chartMessage' \in EmptyResultTexts
    /\ Len(charts') = Len(charts)
    /\ ~summary'.shown
    /\ treatment' = <<>>

\* C5 as stated: every distribution whose counts sum to 0 ends in the
\* empty-result message, with no Chart constructed.
C5_ZeroTotalShortCircuits ==
    [][Answered /\ Sum(Values(regionalData'[1])) = 0 => ShortCircuited]_vars

\* C5, amended: the empty mapping ends in the empty-result message with no Chart
\* constructed; a non-empty mapping is rendered, also when its counts are all 0,
\* and then every row of its summary table shows '0%'.
C5_EmptyMappingShortCircuits ==
    [][Answered =>
          IF regionalData'[1] = <<>>
          THEN ShortCircuited
          ELSE /\ summary'.shown
               /\ Len(summary'.rows) = Len(regionalData'[1])
               /\ canvasPresent => Len(charts') = Len(charts) + 1
               /\ Sum(Values(regionalData'[1])) = 0 =>
                      \A i \in 1..Len(summary'.rows) :
                          summary'.rows[i].percentage = <<"0", "%">>]_vars

\* an empty mapping was answered with the empty-result message
C5_EmptyAnswered ==
    /\ regionalData = << <<>> >>
    /\ chartMessage \in EmptyResultTexts
    /\ charts = <<>>
    /\ ~generateDisabled

\* C6: no row of the guide table, no row of the summary table and no chart
\* slice is labelled 'Healthy'.
C6_HealthyNeverDisplayed ==
    /\ \A i \in 1..Len(guide.rows) : guide.rows[i].name # "Healthy"
    /\ \A i \in 1..Len(summary.rows) : summary.rows[i].disease # "Healthy"
    /\ \A i \in 1..Len(canvasSlices) : canvasSlices[i].label # "Healthy"

\* C7: the severity cell of a summary row shows the rank of a mapped disease
\* (0, 1, 2 or 3) and 'N/A' exactly for an unmapped one; it is red for rank 3,
\* orange for rank 2 and green otherwise.
C7_SeverityCell ==
    \A i \in 1..Len(summary.rows) :
        LET row == summary.rows[i]
            mapped == row.disease \in DOMAIN DISEASE_SEVERITY_INDEX
            rank == DISEASE_SEVERITY_INDEX[row.disease]
        IN  /\ mapped => row.severity = NumberToString(rank)
            /\ ~mapped <=> row.severity = NA
            /\ row.color = IF mapped /\ rank = 3 THEN "red"
                           ELSE IF mapped /\ rank = 2 THEN "orange" ELSE "green"

\* both coordinates are present in the record
CarriesBoth(f) == "latitude" \in DOMAIN f /\ "longitude" \in DOMAIN f

\* C8: once getFarms() has answered, savedFarms holds exactly the fetched
\* entries that carry both coordinates, in fetch order (a coordinate of 0 is
\* kept), and the dropdown holds one option for each of them.
C8_SavedFarmsCarryBoth ==
    ~farmsPending =>
        /\ savedFarms = SelectSeq(farms, CarriesBoth)
        /\ Len(farmOptions) = Len(savedFarms)
        /\ \A i \in 1..Len(savedFarms) : farmOptions[i] = OptionValue(savedFarms[i])

\* the two fields hold a geolocated pair
FieldsGeolocated ==
    \E position \in Positions :
        /\ latInput = ToFixed(position.latitude)
        /\ lonInput = ToFixed(position.longitude)

\* C4: while the dropdown holds a farm the two fields hold that farm's stored
\* pair, and while the fields hold a geolocated pair the dropdown is empty.
C4_SingleSource ==
    /\ farmSelectIndex # 0 =>
           /\ latInput = NumberToString(savedFarms[farmSelectIndex].latitude)
           /\ lonInput = NumberToString(savedFarms[farmSelectIndex].longitude)
    /\ FieldsGeolocated => farmSelectIndex = 0

\* C9: once the generate button is disabled it is enabled again, labelled
\* 'Generate Report', however the request settles.
C9_ButtonReturns ==
    generateDisabled ~> (~generateDisabled /\ generateLabel = "Generate Report")

\* the button is back after a request that failed
C9_BackAfterFailure ==
    /\ ~generateDisabled
    /\ generateLabel = "Generate Report"
    /\ generations >= 1
    /\ \E error \in ErrorMessages :
           chartMessage = (<<"Failed to load regional data: ", error>>)

\* C10: destroy() is called at most once on each Chart.
C10_DestroyedAtMostOnce == \A i \in 1..Len(charts) : charts[i] <= 1

====
